---- MODULE Spec2Model ----
(***************************************************************************)
(* State-machine model of the RAG document Q&A backend:                    *)
(*   backend/vector_store.py   VectorStore (FAISS index + chunk records)   *)
(*   backend/rag_pipeline.py   RAGPipeline.query                           *)
(*   backend/main.py           FastAPI handlers and documents_db           *)
(*                                                                         *)
(* Conventions.  Python lists are TLA+ sequences; a Python index i is the  *)
(* TLA+ position i + 1, and chunk indices are kept 0-based as in the code. *)
(* Text is a sequence of character codes.  Floating point scores are kept  *)
(* as integers (inner products of integer vectors); a mean is the pair     *)
(* <<sum, count>>.  The async handlers run on one event loop, so a handler *)
(* is atomic between two points where it really suspends.                  *)
(***************************************************************************)
EXTENDS Integers, Sequences, FiniteSets, TLC

VARIABLES
    index,          \* VectorStore.index: the vectors held by the FAISS index
    documents,      \* VectorStore.documents: chunk records, in insertion order
    doc_to_chunks,  \* VectorStore.doc_to_chunks: doc_id -> list of chunk indices
    documents_db,   \* main.documents_db: doc_id -> DocumentInfo
    pending,        \* uploads suspended at `await file.read()`: doc_id -> file
    next_uuid,      \* number of uuid4 values drawn so far
    assigned,       \* history: every chunk_idx computed by add_documents, in order
    tombstones,     \* history: the chunk indices a delete_document call found listed
    tie_order,      \* how this build of FAISS orders equal scores (fixed per run)
    disk,           \* the two files save_to_disk writes at the persistence path
    response        \* what the last step returned to its caller

vars == <<index, documents, doc_to_chunks, documents_db, pending, next_uuid,
          assigned, tombstones, tie_order, disk, response>>

---------------------------------------------------------------------------
(* Bound of the model: the uuids drawn by uploads, the doc_ids and the      *)
(* number of insertions made on the store directly                          *)
MaxDocs == 2

(* Program constants *)

K == 5

PreviewLen == 200

FLT_LOWEST == -1000000

(* the store sizes of interest: fewer than K chunks, K, and one more *)
MaxStore == K + 1

DocIds == 1..MaxDocs

(* Texts: the chunk contents and the questions.  Characters are 1 and 2.   *)
TA == <<1>>

TB == <<2>>

TAB == <<1, 2>>

Texts == {TA, TB, TAB}

Questions == {TA, TB}

(* Uploaded files: a name, whether the text can be extracted, and the      *)
(* chunks the splitter cuts the extracted text into.                       *)
Files ==
    { [filename |-> "a.txt", readable |-> TRUE,  pieces |-> <<TA>>],
      [filename |-> "b.txt", readable |-> TRUE,  pieces |-> <<TA, TB, TAB, TA, TB>>],
      [filename |-> "e.txt", readable |-> TRUE,  pieces |-> << >>],
      [filename |-> "x.pdf", readable |-> FALSE, pieces |-> <<TA>>],
      [filename |-> "n.exe", readable |-> TRUE,  pieces |-> <<TA>>] }

AllowedTypes == {"a.txt", "b.txt", "e.txt", "x.pdf"}

GenOutcomes == {"ok", "RateLimitError", "AuthenticationError", "APIError"}

(* how the external calls of one query end: the encoder fails, or it works *)
(* and the generation call, if made, ends as one of GenOutcomes             *)
QueryOutcomes == {<<FALSE, "ok">>} \cup {<<TRUE, g>> : g \in GenOutcomes}

---------------------------------------------------------------------------
(* Helpers *)

Range(s) == {s[i] : i \in DOMAIN s}

RECURSIVE SumSeq(_)
SumSeq(s) == IF s = << >> THEN 0 ELSE Head(s) + SumSeq(Tail(s))

Min(a, b) == IF a < b THEN a ELSE b

Count(t, c) == Cardinality({i \in DOMAIN t : t[i] = c})

(* Python list indexing, negative indices counting from the end *)
PyGet(list, i) == IF i < 0 THEN list[Len(list) + i + 1] ELSE list[i + 1]

(* SentenceTransformer.encode on one text: a fixed function of the text *)
Encode(t) == <<Count(t, 1), Count(t, 2)>>

InnerProduct(u, v) == u[1] * v[1] + u[2] * v[2]

---------------------------------------------------------------------------
(* DocumentProcessor.process_document: chunk records with their metadata *)

process_document(file) ==
    [i \in 1..Len(file.pieces) |->
        [content |-> file.pieces[i],
         source |-> file.filename,
         chunk_id |-> i - 1,
         total_chunks |-> Len(file.pieces),
         doc_id |-> 0,
         deleted |-> FALSE]]

---------------------------------------------------------------------------
(* VectorStore *)

Store == [index |-> index, documents |-> documents,
          doc_to_chunks |-> doc_to_chunks]

is_initialized(st) == Len(st.index) > 0

(* chunk_idx off by one: numbering from start_idx + 1 *)
chunk_idx_from_one(start_idx, i) == start_idx + i + 1

(* chunk_idx of the i-th chunk (i from 0) of an insertion starting at start_idx *)
chunk_idx_of(start_idx, i) == start_idx + i

(* the loop skips the last chunk: its vector is indexed, its record is not *)
inserted_without_last_record(st, chunks, doc_id) ==
    LET start_idx == Len(st.documents)
    IN  [index |-> st.index \o [i \in 1..Len(chunks) |-> Encode(chunks[i].content)],
         documents |-> st.documents \o
             [i \in 1..(Len(chunks) - 1) |-> [chunks[i] EXCEPT !.doc_id = doc_id]],
         doc_to_chunks |->
             [d \in (DOMAIN st.doc_to_chunks) \cup {doc_id} |->
                 IF d = doc_id
                 THEN [i \in 1..(Len(chunks) - 1) |-> chunk_idx_of(start_idx, i - 1)]
                 ELSE st.doc_to_chunks[d]]]

(* the vectors of the new chunks reach the index in reverse order *)
inserted_vectors_reversed(st, chunks, doc_id) ==
    LET start_idx == Len(st.documents)
        n == Len(chunks)
    IN  [index |-> st.index \o [i \in 1..n |-> Encode(chunks[n + 1 - i].content)],
         documents |-> st.documents \o
             [i \in 1..n |-> [chunks[i] EXCEPT !.doc_id = doc_id]],
         doc_to_chunks |->
             [d \in (DOMAIN st.doc_to_chunks) \cup {doc_id} |->
                 IF d = doc_id
                 THEN [i \in 1..n |-> chunk_idx_of(start_idx, i - 1)]
                 ELSE st.doc_to_chunks[d]]]

(* the store after lines 78-92 of add_documents: index.add, the loop that  *)
(* numbers and appends the chunks, the doc_to_chunks entry                  *)
inserted(st, chunks, doc_id) ==
    LET start_idx == Len(st.documents)
        chunk_indices == [i \in 1..Len(chunks) |-> chunk_idx_of(start_idx, i - 1)]
    IN  [index |-> st.index \o [i \in 1..Len(chunks) |-> Encode(chunks[i].content)],
         documents |-> st.documents \o
             [i \in 1..Len(chunks) |-> [chunks[i] EXCEPT !.doc_id = doc_id]],
         doc_to_chunks |->
             [d \in (DOMAIN st.doc_to_chunks) \cup {doc_id} |->
                 IF d = doc_id THEN chunk_indices ELSE st.doc_to_chunks[d]]]

(* the records are appended before encode is called, so a failing encode   *)
(* leaves them behind                                                       *)
add_documents_records_first(st, chunks, doc_id, enc_ok) ==
    IF ~enc_ok \/ Len(chunks) = 0
    THEN [store |-> [st EXCEPT !.documents = st.documents \o
                        [i \in 1..Len(chunks) |-> [chunks[i] EXCEPT !.doc_id = doc_id]]],
          raised |-> TRUE]
    ELSE [store |-> inserted(st, chunks, doc_id), raised |-> FALSE]

(* add_documents.  It raises before it changes anything when encode fails  *)
(* (enc_ok = FALSE) or when index.add is handed the shapeless array that    *)
(* encode([]) returns; otherwise index.add, the loop and the mapping run.   *)
add_documents(st, chunks, doc_id, enc_ok) ==
    IF ~enc_ok \/ Len(chunks) = 0
    THEN [store |-> st, raised |-> TRUE]
    ELSE [store |-> inserted(st, chunks, doc_id), raised |-> FALSE]

(* delete_document that forgets the marking loop and only drops the entry *)
delete_document_unmarked(st, doc_id) ==
    [index |-> st.index,
     documents |-> st.documents,
     doc_to_chunks |-> [d \in (DOMAIN st.doc_to_chunks) \ {doc_id} |->
                           st.doc_to_chunks[d]]]

(* the listed chunks are marked and their text is dropped *)
delete_document_clearing(st, doc_id) ==
    IF doc_id \notin DOMAIN st.doc_to_chunks THEN st
    ELSE LET marked == {idx \in Range(st.doc_to_chunks[doc_id]) : idx < Len(st.documents)}
         IN  [index |-> st.index,
              documents |-> [p \in 1..Len(st.documents) |->
                  IF (p - 1) \in marked
                  THEN [st.documents[p] EXCEPT !.deleted = TRUE, !.content = << >>]
                  ELSE st.documents[p]],
              doc_to_chunks |-> [d \in (DOMAIN st.doc_to_chunks) \ {doc_id} |->
                                    st.doc_to_chunks[d]]]

(* the flag of the listed chunks is flipped and the entry is kept *)
delete_document_toggling(st, doc_id) ==
    IF doc_id \notin DOMAIN st.doc_to_chunks THEN st
    ELSE LET marked == {idx \in Range(st.doc_to_chunks[doc_id]) : idx < Len(st.documents)}
         IN  [index |-> st.index,
              documents |-> [p \in 1..Len(st.documents) |->
                  IF (p - 1) \in marked
                  THEN [st.documents[p] EXCEPT !.deleted = ~st.documents[p].deleted]
                  ELSE st.documents[p]],
              doc_to_chunks |-> st.doc_to_chunks]

(* delete_document: an unknown doc_id changes nothing; otherwise the listed *)
(* chunks are marked and the entry is dropped                               *)
delete_document(st, doc_id) ==
    IF doc_id \notin DOMAIN st.doc_to_chunks THEN st
    ELSE LET chunk_indices == st.doc_to_chunks[doc_id]
             marked == {idx \in Range(chunk_indices) : idx < Len(st.documents)}
         IN  [index |-> st.index,
              documents |-> [p \in 1..Len(st.documents) |->
                  IF (p - 1) \in marked
                  THEN [st.documents[p] EXCEPT !.deleted = TRUE]
                  ELSE st.documents[p]],
              doc_to_chunks |-> [d \in (DOMAIN st.doc_to_chunks) \ {doc_id} |->
                                    st.doc_to_chunks[d]]]


---------------------------------------------------------------------------
(* faiss IndexFlatIP.search(x, k): the k best inner products, best first;  *)
(* when the index holds fewer than k vectors the missing places carry the  *)
(* label -1 and the lowest float.  FAISS documents no order among equal    *)
(* scores: a build orders them by ascending or by descending label.        *)

(* the index ranks by ascending inner product *)
Better_lowest_first(vecs, x, i, j, ties) ==
    LET si == InnerProduct(x, vecs[i + 1])
        sj == InnerProduct(x, vecs[j + 1])
    IN  \/ si < sj
        \/ si = sj /\ (IF ties = "asc" THEN i < j ELSE i > j)

Better(vecs, x, i, j, ties) ==
    LET si == InnerProduct(x, vecs[i + 1])
        sj == InnerProduct(x, vecs[j + 1])
    IN  \/ si > sj
        \/ si = sj /\ (IF ties = "asc" THEN i < j ELSE i > j)

RECURSIVE BestFirst(_, _, _, _, _)
BestFirst(vecs, x, labels, m, ties) ==
    IF m = 0 \/ labels = {} THEN << >>
    ELSE LET best == CHOOSE i \in labels :
                         \A j \in labels \ {i} : Better(vecs, x, i, j, ties)
         IN  <<[score |-> InnerProduct(x, vecs[best + 1]), idx |-> best]>>
                 \o BestFirst(vecs, x, labels \ {best}, m - 1, ties)

index_search(vecs, x, k, ties) ==
    LET ntotal == Len(vecs)
        found == BestFirst(vecs, x, 0..(ntotal - 1), Min(k, ntotal), ties)
    IN  found \o [i \in 1..(k - Len(found)) |-> [score |-> FLT_LOWEST, idx |-> -1]]

RECURSIVE KeepValidIndex(_, _)
KeepValidIndex(st, raw) ==
    IF raw = << >> THEN << >>
    ELSE LET h == Head(raw)
         IN  (IF h.idx < Len(st.documents)
              THEN <<[doc |-> PyGet(st.documents, h.idx),
                      score |-> h.score,
                      pos |-> IF h.idx < 0 THEN Len(st.documents) + h.idx ELSE h.idx]>>
              ELSE << >>) \o KeepValidIndex(st, Tail(raw))

(* VectorStore.similarity_search: (document, score) pairs; pos is the list *)
(* position the document was read from (history, not part of the result)   *)
similarity_search(st, query, k, ties) ==
    IF ~is_initialized(st) THEN << >>
    ELSE KeepValidIndex(st, index_search(st.index, Encode(query), k, ties))


---------------------------------------------------------------------------
(* RAGPipeline.query *)

Ellipsis == <<46, 46, 46>>

(* the content is cut as soon as it reaches the preview length *)
Preview_cut_at_length(content) ==
    IF Len(content) >= PreviewLen
    THEN SubSeq(content, 1, PreviewLen) \o Ellipsis
    ELSE content

Preview(content) ==
    IF Len(content) > PreviewLen
    THEN SubSeq(content, 1, PreviewLen) \o Ellipsis
    ELSE content

(* STEP 2 left out: every search result is taken as valid *)
valid_results_unfiltered(search_results) == search_results

RECURSIVE valid_results(_)
valid_results(search_results) ==
    IF search_results = << >> THEN << >>
    ELSE (IF ~Head(search_results).doc.deleted THEN <<Head(search_results)>> ELSE << >>)
             \o valid_results(Tail(search_results))

(* the citation built for one surviving result; pos is history *)
Citation(r) ==
    [source |-> r.doc.source,
     chunk_id |-> r.doc.chunk_id,
     confidence |-> r.score,
     preview |-> Preview(r.doc.content),
     pos |-> r.pos]

Sources(valid) == [i \in 1..Len(valid) |-> Citation(valid[i])]

Zero == <<0, 1>>

(* the score of the best result instead of the mean *)
avg_confidence_of_first(valid) == <<valid[1].score, 1>>

avg_confidence(valid) == <<SumSeq([i \in 1..Len(valid) |-> valid[i].score]), Len(valid)>>

NoAnswer ==
    [outcome |-> "none", answer |-> "none", error |-> "none", sources |-> << >>,
     confidence |-> Zero, gen_called |-> FALSE, results |-> << >>]

(* STEP 4 of query: the chat history that goes into the prompt *)

HistoryWindow == 4

(* a chat message is a dict; "role" and "content" may be missing *)
Messages ==
    { [role |-> "assistant", content |-> TA],
      [content |-> TB] }

(* histories up to one message longer than the window *)
MaxHistory == HistoryWindow + 1

RECURSIVE SeqsUpTo(_, _)
SeqsUpTo(S, n) ==
    IF n = 0 THEN {<< >>}
    ELSE LET shorter == SeqsUpTo(S, n - 1)
         IN  shorter \cup {Append(h, m) : h \in {g \in shorter : Len(g) = n - 1}, m \in S}

Histories == SeqsUpTo(Messages, MaxHistory)

(* dict.get(key, default) *)
DictGet(msg, key, default) == IF key \in DOMAIN msg THEN msg[key] ELSE default

(* str.title() on the role names *)
Title(role) ==
    CASE role = "user" -> "User"
      [] role = "assistant" -> "Assistant"
      [] OTHER -> role

(* list[-n:] *)
PyLast(list, n) ==
    IF Len(list) > n THEN SubSeq(list, Len(list) - n + 1, Len(list)) ELSE list

(* the first four messages instead of the last four *)
recent_history_oldest(chat_history) ==
    IF Len(chat_history) > HistoryWindow
    THEN SubSeq(chat_history, 1, HistoryWindow)
    ELSE chat_history

recent_history(chat_history) == PyLast(chat_history, HistoryWindow)

(* one "Role: content" line per recent message *)
history_parts(chat_history) ==
    LET recent == recent_history(chat_history)
    IN  [i \in 1..Len(recent) |->
            [role |-> Title(DictGet(recent[i], "role", "user")),
             content |-> DictGet(recent[i], "content", << >>)]]

(* the user prompt handed to _call_openai: the history lines (under the    *)
(* header "Previous conversation:" when there are any), the numbered        *)
(* context entries and the question                                         *)
user_prompt(valid, question, chat_history) ==
    [history |-> history_parts(chat_history),
     context |-> [i \in 1..Len(valid) |->
                     [number |-> i, source |-> valid[i].doc.source,
                      content |-> valid[i].doc.content]],
     question |-> question]

NoPrompt == [history |-> << >>, context |-> << >>, question |-> << >>]

(* no try around the generation call: its failure leaves query as an      *)
(* exception                                                                *)
generated_answer_uncaught(valid, search_results, gen) ==
    IF gen = "ok"
    THEN [outcome |-> "answer", answer |-> "generated", error |-> "none",
          sources |-> Sources(valid), confidence |-> avg_confidence(valid),
          gen_called |-> TRUE, results |-> search_results]
    ELSE [outcome |-> "raised", answer |-> "none", error |-> gen,
          sources |-> << >>, confidence |-> Zero,
          gen_called |-> TRUE, results |-> search_results]

(* the except branch answers without the sources *)
generated_answer_without_sources(valid, search_results, gen) ==
    IF gen = "ok"
    THEN [outcome |-> "answer", answer |-> "generated", error |-> "none",
          sources |-> Sources(valid), confidence |-> avg_confidence(valid),
          gen_called |-> TRUE, results |-> search_results]
    ELSE [outcome |-> "answer", answer |-> "generation_failed", error |-> gen,
          sources |-> << >>, confidence |-> Zero,
          gen_called |-> TRUE, results |-> search_results]

(* the Answer returned when the generation call ends as `gen` *)
generated_answer(valid, search_results, gen) ==
    IF gen = "ok"
    THEN [outcome |-> "answer", answer |-> "generated", error |-> "none",
          sources |-> Sources(valid), confidence |-> avg_confidence(valid),
          gen_called |-> TRUE, results |-> search_results]
    ELSE [outcome |-> "answer", answer |-> "generation_failed", error |-> gen,
          sources |-> Sources(valid), confidence |-> Zero,
          gen_called |-> TRUE, results |-> search_results]

(* one message for both empty cases: results that are all deleted are     *)
(* answered like no results                                                 *)
query_single_message(st, question, enc_ok, gen, ties) ==
    IF is_initialized(st) /\ ~enc_ok
    THEN [NoAnswer EXCEPT !.outcome = "raised", !.error = "EmbeddingError"]
    ELSE LET search_results == similarity_search(st, question, K, ties)
             valid == valid_results(search_results)
         IN  IF search_results = << >> \/ valid = << >>
             THEN [NoAnswer EXCEPT !.outcome = "answer",
                                   !.answer = "no_relevant_information",
                                   !.results = search_results]
             ELSE generated_answer(valid, search_results, gen)

(* the generation call is made before the check for surviving results *)
query_generating_first(st, question, enc_ok, gen, ties) ==
    IF is_initialized(st) /\ ~enc_ok
    THEN [NoAnswer EXCEPT !.outcome = "raised", !.error = "EmbeddingError"]
    ELSE LET search_results == similarity_search(st, question, K, ties)
             valid == valid_results(search_results)
         IN  IF search_results = << >>
             THEN [NoAnswer EXCEPT !.outcome = "answer",
                                   !.answer = "no_relevant_information"]
             ELSE IF valid = << >>
             THEN [NoAnswer EXCEPT !.outcome = "answer",
                                   !.answer = "documents_deleted",
                                   !.gen_called = TRUE,
                                   !.results = search_results]
             ELSE generated_answer(valid, search_results, gen)

(* query(question): enc_ok says whether encoding the question succeeds,    *)
(* gen how the OpenAI call ends if it is made                              *)
query(st, question, enc_ok, gen, ties) ==
    IF is_initialized(st) /\ ~enc_ok
    THEN [NoAnswer EXCEPT !.outcome = "raised", !.error = "EmbeddingError"]
    ELSE LET search_results == similarity_search(st, question, K, ties)
             valid == valid_results(search_results)
         IN  IF search_results = << >>
             THEN [NoAnswer EXCEPT !.outcome = "answer",
                                   !.answer = "no_relevant_information"]
             ELSE IF valid = << >>
             THEN [NoAnswer EXCEPT !.outcome = "answer",
                                   !.answer = "documents_deleted",
                                   !.results = search_results]
             ELSE generated_answer(valid, search_results, gen)


---------------------------------------------------------------------------
(* The state machine *)

(* A response: the operation, its inputs (doc_id, question, k, and how its *)
(* external calls ended: enc_ok, gen) and what it returned                  *)
Resp(op, d, q, kk, enc_ok, gen, a) ==
    [op |-> op, doc_id |-> d, question |-> q, k |-> kk,
     enc_ok |-> enc_ok, gen |-> gen] @@ a

NoResponse == Resp("none", 0, << >>, 0, TRUE, "none", NoAnswer)

HttpError(status) == [NoAnswer EXCEPT !.outcome = status]

Raised == [NoAnswer EXCEPT !.outcome = "raised"]

Ok == [NoAnswer EXCEPT !.outcome = "ok"]

(* a file that does not exist *)
NoFile == [exists |-> FALSE, data |-> << >>]

(* the persistence path before anything is saved: neither file exists.     *)
(* saved and complete are history: the store as the last save_to_disk that  *)
(* returned found it, and whether both files are the ones that call wrote   *)
NothingSaved ==
    [faiss |-> NoFile, pkl |-> NoFile,
     saved |-> [index |-> << >>, documents |-> << >>,
                doc_to_chunks |-> [d \in {} |-> << >>]],
     complete |-> FALSE]

Init ==
    /\ index = << >>
    /\ documents = << >>
    /\ doc_to_chunks = [d \in {} |-> << >>]
    /\ documents_db = [d \in {} |-> << >>]
    /\ pending = [d \in {} |-> << >>]
    /\ next_uuid = 0
    /\ assigned = << >>
    /\ tombstones = {}
    /\ tie_order \in {"asc", "desc"}
    /\ disk = NothingSaved
    /\ response = NoResponse

SetStore(st) ==
    /\ index' = st.index
    /\ documents' = st.documents
    /\ doc_to_chunks' = st.doc_to_chunks

StoreUnchanged == UNCHANGED <<index, documents, doc_to_chunks, assigned, tombstones>>

(* the chunk indices doc_to_chunks lists under doc_id *)
Listed(st, doc_id) ==
    IF doc_id \in DOMAIN st.doc_to_chunks THEN Range(st.doc_to_chunks[doc_id]) ELSE {}

(* the indices an insertion registered, appended to the history *)
Registered(r, doc_id) ==
    IF r.raised THEN assigned ELSE assigned \o r.store.doc_to_chunks[doc_id]

(* chunks_count taken from total_chunks + 1 *)
DocumentInfo_miscounted(doc_id, file, chunks) ==
    [id |-> doc_id, filename |-> file.filename,
     chunks_count |-> Len(chunks) + 1, status |-> "processed"]

DocumentInfo(doc_id, file, chunks) ==
    [id |-> doc_id, filename |-> file.filename,
     chunks_count |-> Len(chunks), status |-> "processed"]

(* ---- main.py: POST /upload-document ---- *)

(* the file type is refused before anything else happens *)
UploadRejected(file) ==
    /\ file.filename \notin AllowedTypes
    /\ response' = Resp("upload", 0, << >>, 0, TRUE, "none", HttpError("http_400"))
    /\ StoreUnchanged
    /\ UNCHANGED <<documents_db, pending, next_uuid, tie_order, disk>>

(* up to `await file.read()`: the type is accepted and the uuid is drawn *)
UploadBegin(file) ==
    /\ file.filename \in AllowedTypes
    /\ next_uuid < MaxDocs
    /\ next_uuid' = next_uuid + 1
    /\ pending' = [d \in (DOMAIN pending) \cup {next_uuid + 1} |->
                      IF d = next_uuid + 1 THEN file ELSE pending[d]]
    /\ response' = NoResponse
    /\ StoreUnchanged
    /\ UNCHANGED <<documents_db, tie_order, disk>>

(* an upload during whose add_documents the delete_document of another    *)
(* request runs                                                             *)
UploadFinish_overlapping(doc_id, enc_ok) ==
    /\ doc_id \in DOMAIN pending
    /\ LET file == pending[doc_id]
           chunks == process_document(file)
           r == add_documents(Store, chunks, doc_id, enc_ok)
           others == DOMAIN doc_to_chunks
       IN  IF ~file.readable
           THEN /\ response' = Resp("upload", doc_id, << >>, 0, TRUE, "none",
                                    HttpError("http_500"))
                /\ StoreUnchanged
                /\ UNCHANGED documents_db
           ELSE /\ r.raised \/ Len(documents) + Len(chunks) <= MaxStore
                /\ SetStore(IF r.raised \/ others = {} THEN r.store
                            ELSE delete_document(r.store, CHOOSE e \in others : TRUE))
                /\ assigned' = Registered(r, doc_id)
                /\ documents_db' =
                       IF r.raised THEN documents_db
                       ELSE [d \in (DOMAIN documents_db) \cup {doc_id} |->
                                IF d = doc_id THEN DocumentInfo(doc_id, file, chunks)
                                ELSE documents_db[d]]
                /\ response' = Resp("upload", doc_id, << >>, 0, enc_ok, "none",
                                    IF r.raised THEN HttpError("http_500") ELSE Ok)
                /\ UNCHANGED tombstones
    /\ pending' = [d \in (DOMAIN pending) \ {doc_id} |-> pending[d]]
    /\ UNCHANGED <<next_uuid, tie_order, disk>>

(* from the read to the response: process_document, add_documents,         *)
(* documents_db; an exception of either call becomes a 500                  *)
UploadFinish(doc_id, enc_ok) ==
    /\ doc_id \in DOMAIN pending
    /\ LET file == pending[doc_id]
           chunks == process_document(file)
           r == add_documents(Store, chunks, doc_id, enc_ok)
       IN  IF ~file.readable
           THEN /\ response' = Resp("upload", doc_id, << >>, 0, TRUE, "none",
                                    HttpError("http_500"))
                /\ StoreUnchanged
                /\ UNCHANGED documents_db
           ELSE /\ r.raised \/ Len(documents) + Len(chunks) <= MaxStore
                /\ SetStore(r.store)
                /\ assigned' = Registered(r, doc_id)
                /\ documents_db' =
                       IF r.raised THEN documents_db
                       ELSE [d \in (DOMAIN documents_db) \cup {doc_id} |->
                                IF d = doc_id THEN DocumentInfo(doc_id, file, chunks)
                                ELSE documents_db[d]]
                /\ response' = Resp("upload", doc_id, << >>, 0, enc_ok, "none",
                                    IF r.raised THEN HttpError("http_500") ELSE Ok)
                /\ UNCHANGED tombstones
    /\ pending' = [d \in (DOMAIN pending) \ {doc_id} |-> pending[d]]
    /\ UNCHANGED <<next_uuid, tie_order, disk>>

(* ---- main.py: DELETE /documents/{doc_id} ---- *)
(* DELETE /documents/{doc_id} that drops the documents_db entry and does   *)
(* not call the vector store                                                *)
DeleteDocument_metadata_only(doc_id) ==
    /\ IF doc_id \notin DOMAIN documents_db
       THEN /\ response' = Resp("delete", doc_id, << >>, 0, TRUE, "none",
                                HttpError("http_404"))
            /\ UNCHANGED documents_db
       ELSE /\ documents_db' = [d \in (DOMAIN documents_db) \ {doc_id} |-> documents_db[d]]
            /\ response' = Resp("delete", doc_id, << >>, 0, TRUE, "none", Ok)
    /\ StoreUnchanged
    /\ UNCHANGED <<pending, next_uuid, tie_order, disk>>

(* DELETE /documents/{doc_id} without the membership test *)
DeleteDocument_unchecked(doc_id) ==
    /\ SetStore(delete_document(Store, doc_id))
    /\ tombstones' = tombstones \cup Listed(Store, doc_id)
    /\ documents_db' = [d \in (DOMAIN documents_db) \ {doc_id} |-> documents_db[d]]
    /\ response' = Resp("delete", doc_id, << >>, 0, TRUE, "none", Ok)
    /\ UNCHANGED <<assigned, pending, next_uuid, tie_order, disk>>

DeleteDocument(doc_id) ==
    /\ IF doc_id \notin DOMAIN documents_db
       THEN /\ response' = Resp("delete", doc_id, << >>, 0, TRUE, "none",
                                HttpError("http_404"))
            /\ StoreUnchanged
            /\ UNCHANGED documents_db
       ELSE /\ SetStore(delete_document(Store, doc_id))
            /\ tombstones' = tombstones \cup Listed(Store, doc_id)
            /\ documents_db' = [d \in (DOMAIN documents_db) \ {doc_id} |-> documents_db[d]]
            /\ response' = Resp("delete", doc_id, << >>, 0, TRUE, "none", Ok)
            /\ UNCHANGED assigned
    /\ UNCHANGED <<pending, next_uuid, tie_order, disk>>

(* ---- main.py: POST /query ---- *)
query_documents(db, st, question, enc_ok, gen, ties) ==
    IF DOMAIN db = {}
    THEN HttpError("http_400")
    ELSE LET result == query(st, question, enc_ok, gen, ties)
         IN  IF result.outcome = "raised"
             THEN [result EXCEPT !.outcome = "http_500"]
             ELSE result

QueryDocuments(question, enc_ok, gen) ==
    /\ response' = Resp("query", 0, question, K, enc_ok, gen,
                        query_documents(documents_db, Store, question, enc_ok, gen,
                                        tie_order))
    /\ StoreUnchanged
    /\ UNCHANGED <<documents_db, pending, next_uuid, tie_order, disk>>

(* ---- main.py: GET /stats ---- *)

(* vector_store_size counts the chunks that are not deleted *)
get_stats_live_size(db, st) ==
    [total_documents |-> Cardinality(DOMAIN db),
     total_chunks |-> SumSeq([d \in 1..MaxDocs |->
                                 IF d \in DOMAIN db THEN db[d].chunks_count ELSE 0]),
     vector_store_size |-> Cardinality({p \in DOMAIN st.documents : ~st.documents[p].deleted})]

(* total_chunks counts every record of the store *)
get_stats_all_records(db, st) ==
    [total_documents |-> Cardinality(DOMAIN db),
     total_chunks |-> Len(st.documents),
     vector_store_size |-> IF is_initialized(st) THEN Len(st.index) ELSE 0]

get_stats(db, st) ==
    [total_documents |-> Cardinality(DOMAIN db),
     total_chunks |-> SumSeq([d \in 1..MaxDocs |->
                                 IF d \in DOMAIN db THEN db[d].chunks_count ELSE 0]),
     vector_store_size |-> IF is_initialized(st) THEN Len(st.index) ELSE 0]

GetStats ==
    /\ response' = Resp("stats", 0, << >>, 0, TRUE, "none", Ok)
                       @@ [stats |-> get_stats(documents_db, Store)]
    /\ StoreUnchanged
    /\ UNCHANGED <<documents_db, pending, next_uuid, tie_order, disk>>

(* ---- the store and the pipeline called directly, as           ---- *)
(* ---- streamlit_rag_app.py and the modules' own examples do    ---- *)

Ks == {1, K}

(* number of add_documents calls that have inserted chunks so far *)
AddsSoFar == Cardinality({p \in DOMAIN documents : documents[p].chunk_id = 0})

StoreAdd(doc_id, file, enc_ok) ==
    /\ file.readable /\ file.filename \in AllowedTypes
    /\ LET chunks == process_document(file)
           r == add_documents(Store, chunks, doc_id, enc_ok)
       IN  /\ r.raised \/ (Len(documents) + Len(chunks) <= MaxStore /\ AddsSoFar < MaxDocs)
           /\ SetStore(r.store)
           /\ assigned' = Registered(r, doc_id)
           /\ response' = Resp("add_documents", doc_id, << >>, 0, enc_ok, "none",
                               IF r.raised THEN Raised ELSE Ok)
    /\ UNCHANGED <<tombstones, documents_db, pending, next_uuid, tie_order, disk>>

StoreDelete(doc_id) ==
    /\ SetStore(delete_document(Store, doc_id))
    /\ tombstones' = tombstones \cup Listed(Store, doc_id)
    /\ response' = Resp("delete_document", doc_id, << >>, 0, TRUE, "none", Ok)
    /\ UNCHANGED <<assigned, documents_db, pending, next_uuid, tie_order, disk>>

(* the question is encoded before the store is asked whether it holds     *)
(* anything                                                                 *)
StoreSearch_encoding_first(question, k, enc_ok) ==
    /\ response' =
           Resp("similarity_search", 0, question, k, enc_ok, "none",
                IF ~enc_ok
                THEN [Raised EXCEPT !.error = "EmbeddingError"]
                ELSE [Ok EXCEPT !.results =
                                   similarity_search(Store, question, k, tie_order)])
    /\ StoreUnchanged
    /\ UNCHANGED <<documents_db, pending, next_uuid, tie_order, disk>>

StoreSearch(question, k, enc_ok) ==
    /\ response' =
           Resp("similarity_search", 0, question, k, enc_ok, "none",
                IF is_initialized(Store) /\ ~enc_ok
                THEN [Raised EXCEPT !.error = "EmbeddingError"]
                ELSE [Ok EXCEPT !.results =
                                   similarity_search(Store, question, k, tie_order)])
    /\ StoreUnchanged
    /\ UNCHANGED <<documents_db, pending, next_uuid, tie_order, disk>>

PipelineQuery(question, enc_ok, gen) ==
    /\ response' = Resp("pipeline_query", 0, question, K, enc_ok, gen,
                        query(Store, question, enc_ok, gen, tie_order))
    /\ StoreUnchanged
    /\ UNCHANGED <<documents_db, pending, next_uuid, tie_order, disk>>

(* query called with a chat history; prompt is what _call_openai was       *)
(* handed, NoPrompt when it was not called                                  *)
QueryWithHistory(question, chat_history, enc_ok, gen) ==
    /\ LET result == query(Store, question, enc_ok, gen, tie_order)
       IN  response' =
               Resp("query_with_history", 0, question, K, enc_ok, gen, result)
                   @@ [chat_history |-> chat_history,
                       prompt |-> IF result.gen_called
                                  THEN user_prompt(valid_results(result.results),
                                                   question, chat_history)
                                  ELSE NoPrompt]
    /\ StoreUnchanged
    /\ UNCHANGED <<documents_db, pending, next_uuid, tie_order, disk>>

(* ---- rag_pipeline.py: the citation of a chunk of any length ---- *)

(* chunk contents of n characters, of two letter patterns *)
ContentOf(n, period) == [i \in 1..n |-> 97 + (i % period)]

Contents == {ContentOf(n, period) : n \in 0..(PreviewLen + Len(Ellipsis)), period \in {5, 7}}

(* STEP 3 of query for one surviving result with this content *)
CiteChunk(content) ==
    /\ response' =
           Resp("citation", 0, << >>, 0, TRUE, "none", Ok)
               @@ [content |-> content,
                   citation |-> Citation([doc |-> [content |-> content, source |-> "a.txt",
                                                   chunk_id |-> 0, total_chunks |-> 1,
                                                   doc_id |-> 1, deleted |-> FALSE],
                                          score |-> 1, pos |-> 0])]
    /\ StoreUnchanged
    /\ UNCHANGED <<documents_db, pending, next_uuid, tie_order, disk>>

(* ---- vector_store.py: load_from_disk ---- *)

(* the embedding dimension of the configured model: the length of the      *)
(* vectors Encode makes                                                     *)
dimension == Len(Encode(TA))

(* at most this many chunks in a saved store *)
MaxSaved == MaxDocs

Bits == {0, 1}

(* vectors of dimension d *)
VectorsOf(d) == [1..d -> Bits]

(* the record save_to_disk pickles for position p *)
SavedChunk(p) ==
    [content |-> TA, source |-> "a.txt", chunk_id |-> p - 1, total_chunks |-> 1,
     doc_id |-> p, deleted |-> FALSE]

(* what a pair of files <filepath>.faiss, <filepath>.pkl can hold: a store *)
(* of n chunks written by save_to_disk with an index of dimension d, the    *)
(* configured one or another; exists = FALSE when a file is missing         *)
SavedFiles ==
    { [exists |-> FALSE, index |-> << >>, documents |-> << >>,
       doc_to_chunks |-> [d \in {} |-> << >>]] }
    \cup
    { [exists |-> TRUE, index |-> vecs,
       documents |-> [p \in 1..Len(vecs) |-> SavedChunk(p)],
       doc_to_chunks |-> [d \in 1..Len(vecs) |-> <<d - 1>>]] :
         vecs \in UNION { [1..n -> VectorsOf(d)] :
                              n \in 0..MaxSaved, d \in {dimension, dimension + 1} } }

load_from_disk(st, saved) ==
    IF saved.exists
    THEN [store |-> [index |-> saved.index, documents |-> saved.documents,
                     doc_to_chunks |-> saved.doc_to_chunks],
          returned |-> TRUE]
    ELSE [store |-> st, returned |-> FALSE]

LoadFromDisk(saved) ==
    /\ LET r == load_from_disk(Store, saved)
       IN  /\ SetStore(r.store)
           /\ response' = Resp("load_from_disk", 0, << >>, 0, TRUE, "none",
                               IF r.returned THEN Ok
                               ELSE [NoAnswer EXCEPT !.outcome = "false"])
    /\ UNCHANGED <<assigned, tombstones, documents_db, pending, next_uuid, tie_order, disk>>

(* ---- vector_store.py: save_to_disk ---- *)

(* the dimension of the vectors an index holds: the configured one for an   *)
(* index built by the constructor                                           *)
index_d(idx) == IF Len(idx) = 0 THEN dimension ELSE Len(idx[1])

(* faiss.write_index of a flat index: the header and the vectors laid out   *)
(* one after the other                                                      *)
write_index(idx) ==
    LET d == index_d(idx)
    IN  [d |-> d, ntotal |-> Len(idx),
         xb |-> [i \in 1..(Len(idx) * d) |->
                    idx[((i - 1) \div d) + 1][((i - 1) % d) + 1]]]

(* faiss.read_index: the vectors cut out of the array again *)
read_index(f) ==
    [p \in 1..f.ntotal |-> [j \in 1..f.d |-> f.xb[(p - 1) * f.d + j]]]

(* how a call of save_to_disk can end: both files written, write_index     *)
(* raising with nothing written, or open() of the .pkl raising after the    *)
(* .faiss was written                                                       *)
SaveOutcomes == {"saved", "faiss_failed", "pkl_failed"}

(* the pickle loses the deleted flags *)
save_to_disk_without_flags(st, files, outcome) ==
    IF outcome = "faiss_failed"
    THEN [files |-> files, raised |-> TRUE]
    ELSE IF outcome = "pkl_failed"
    THEN [files |-> [files EXCEPT !.faiss = [exists |-> TRUE,
                                             data |-> write_index(st.index)]],
          raised |-> TRUE]
    ELSE [files |-> [faiss |-> [exists |-> TRUE, data |-> write_index(st.index)],
                     pkl |-> [exists |-> TRUE,
                              data |-> [documents |->
                                            [p \in DOMAIN st.documents |->
                                                [st.documents[p] EXCEPT !.deleted = FALSE]],
                                        doc_to_chunks |-> st.doc_to_chunks]]],
          raised |-> FALSE]

(* save_to_disk on the files [faiss, pkl] found at the path *)
save_to_disk(st, files, outcome) ==
    IF outcome = "faiss_failed"
    THEN [files |-> files, raised |-> TRUE]
    ELSE IF outcome = "pkl_failed"
    THEN [files |-> [files EXCEPT !.faiss = [exists |-> TRUE,
                                             data |-> write_index(st.index)]],
          raised |-> TRUE]
    ELSE [files |-> [faiss |-> [exists |-> TRUE, data |-> write_index(st.index)],
                     pkl |-> [exists |-> TRUE,
                              data |-> [documents |-> st.documents,
                                        doc_to_chunks |-> st.doc_to_chunks]]],
          raised |-> FALSE]

SaveToDisk(outcome) ==
    /\ LET r == save_to_disk(Store, [faiss |-> disk.faiss, pkl |-> disk.pkl], outcome)
       IN  /\ disk' = [faiss |-> r.files.faiss, pkl |-> r.files.pkl,
                       saved |-> IF r.raised THEN disk.saved ELSE Store,
                       complete |-> IF r.raised
                                    THEN disk.complete /\ r.files.faiss = disk.faiss
                                    ELSE TRUE]
           /\ response' = Resp("save_to_disk", 0, << >>, 0, TRUE, "none",
                               IF r.raised THEN Raised ELSE Ok)
    /\ StoreUnchanged
    /\ UNCHANGED <<documents_db, pending, next_uuid, tie_order>>

(* what load_from_disk finds at the path: the existence test of both files  *)
(* and what read_index and pickle.load make of them                         *)
PersistedFiles(dk) ==
    IF dk.faiss.exists /\ dk.pkl.exists
    THEN [exists |-> TRUE, index |-> read_index(dk.faiss.data),
          documents |-> dk.pkl.data.documents,
          doc_to_chunks |-> dk.pkl.data.doc_to_chunks]
    ELSE [exists |-> FALSE, index |-> << >>, documents |-> << >>,
          doc_to_chunks |-> [d \in {} |-> << >>]]

(* load_from_disk on the path save_to_disk writes *)
LoadPersisted == LoadFromDisk(PersistedFiles(disk))

(* The HTTP service of main.py under concurrent requests *)
Next ==
    \/ \E file \in Files : UploadRejected(file)
    \/ \E file \in Files : UploadBegin(file)
    \/ \E d \in DocIds, enc_ok \in BOOLEAN : UploadFinish(d, enc_ok)
    \/ \E d \in DocIds : DeleteDocument(d)
    \/ \E q \in Questions, o \in QueryOutcomes : QueryDocuments(q, o[1], o[2])
    \/ GetStats

Spec == Init /\ [][Next]_vars

(* The store and the pipeline used directly: no upload ever fills          *)
(* documents_db, so POST /query sees it empty                               *)
NextStore ==
    \/ \E d \in DocIds, file \in Files, enc_ok \in BOOLEAN : StoreAdd(d, file, enc_ok)
    \/ \E d \in DocIds : StoreDelete(d)
    \/ \E q \in Questions, k \in Ks, enc_ok \in BOOLEAN : StoreSearch(q, k, enc_ok)
    \/ \E q \in Questions, o \in QueryOutcomes : PipelineQuery(q, o[1], o[2])
    \/ \E q \in Questions, o \in QueryOutcomes : QueryDocuments(q, o[1], o[2])

SpecStore == Init /\ [][NextStore]_vars

---------------------------------------------------------------------------
(* The pipeline queried with chat histories, every call of the encoder    *)
(* and of OpenAI succeeding and every add_documents under a doc_id of its   *)
(* own, as the callers of the store draw them                               *)
NextPrompt ==
    \/ \E file \in Files : StoreAdd(AddsSoFar + 1, file, TRUE)
    \/ \E h \in Histories : QueryWithHistory(TA, h, TRUE, "ok")

SpecPrompt == Init /\ [][NextPrompt]_vars

(* A store that loads saved files *)
NextDisk == \E saved \in SavedFiles : LoadFromDisk(saved)

SpecDisk == Init /\ [][NextDisk]_vars

(* A store that is filled, saved and loaded again, every insertion under  *)
(* a doc_id of its own and every call of the encoder succeeding; a load     *)
(* that brings back a smaller store makes room for more insertions, which   *)
(* stop once MaxDocs chunk indices have been given out                      *)
NextPersist ==
    \/ \E file \in Files : Len(assigned) < MaxDocs /\ StoreAdd(AddsSoFar + 1, file, TRUE)
    \/ \E d \in DocIds : StoreDelete(d)
    \/ \E outcome \in SaveOutcomes : SaveToDisk(outcome)
    \/ LoadPersisted

SpecPersist == Init /\ [][NextPersist]_vars

(* Citations of chunks of every length around the preview length *)
NextPreview == \E content \in Contents : CiteChunk(content)

SpecPreview == Init /\ [][NextPreview]_vars

(* Properties *)

SearchReturned == response.op = "similarity_search" /\ response.outcome = "ok"

ApiAnswered == response.op = "query" /\ response.outcome = "answer"

PipelineAnswered == response.op = "pipeline_query" /\ response.outcome = "answer"

(* the chunks that are not soft-deleted *)
ValidCount == Cardinality({p \in DOMAIN documents : ~documents[p].deleted})

C3_FilterBeforeCap ==
    ApiAnswered => Len(response.sources) = Min(K, ValidCount)

(* C3, the spec's weaker wording: never fewer than min(k, valid_count) *)
C3_NotFewerThanCap ==
    ApiAnswered => Len(response.sources) >= Min(K, ValidCount)

(* C4: whatever the interleaving of concurrent uploads, the chunk indices  *)
(* add_documents hands out are distinct, none is skipped (their number is  *)
(* the largest one plus 1), and each index registered in doc_to_chunks is   *)
(* the position of that chunk in the documents list.                        *)
C4_AtomicIdAssignment ==
    /\ \A i, j \in DOMAIN assigned : i # j => assigned[i] # assigned[j]
    /\ Range(assigned) = 0..(Len(assigned) - 1)
    /\ Len(assigned) = Len(documents)
    /\ \A d \in DOMAIN doc_to_chunks :
           \A j \in DOMAIN doc_to_chunks[d] :
               LET idx == doc_to_chunks[d][j]
               IN  /\ idx + 1 \in DOMAIN documents
                   /\ documents[idx + 1].doc_id = d
                   /\ documents[idx + 1].chunk_id = j - 1

(* two uploads were in flight together and were inserted in the order      *)
(* opposite to the one their uuids were drawn in                            *)
C4_Witness ==
    \E p, q \in DOMAIN documents :
        /\ p < q
        /\ documents[p].doc_id = 2
        /\ documents[q].doc_id = 1
        /\ documents[q].total_chunks > 1

(* C5: an upload that fails leaves index, documents, doc_to_chunks and     *)
(* documents_db as they were; one that succeeds appends all chunks of the   *)
(* document to the index and the documents list, registers all of them and *)
(* records the document in documents_db.                                    *)
C5_Step ==
    response'.op = "upload" =>
        IF response'.outcome = "ok"
        THEN LET d == response'.doc_id
                 pieces == pending[d].pieces
                 n == Len(pieces)
                 base == Len(documents)
             IN  /\ n > 0
                 /\ Len(index') = Len(index) + n
                 /\ Len(documents') = base + n
                 /\ \A p \in 1..base :
                        documents'[p] = documents[p] /\ index'[p] = index[p]
                 /\ \A i \in 1..n :
                        /\ documents'[base + i].content = pieces[i]
                        /\ documents'[base + i].doc_id = d
                        /\ ~documents'[base + i].deleted
                        /\ index'[base + i] = Encode(pieces[i])
                 /\ DOMAIN doc_to_chunks' = (DOMAIN doc_to_chunks) \cup {d}
                 /\ doc_to_chunks'[d] = [i \in 1..n |-> base + i - 1]
                 /\ \A e \in DOMAIN doc_to_chunks :
                        e # d => doc_to_chunks'[e] = doc_to_chunks[e]
                 /\ DOMAIN documents_db' = (DOMAIN documents_db) \cup {d}
                 /\ documents_db'[d].chunks_count = n
        ELSE UNCHANGED <<index, documents, doc_to_chunks, documents_db>>

C5_IngestionAllOrNothing == [][C5_Step]_vars

(* an upload failed on a store that already holds a document *)
C5_Witness ==
    /\ response.op = "upload"
    /\ response.outcome = "http_500"
    /\ Len(documents) > 0
    /\ DOMAIN documents_db # {}

Retrieved == similarity_search(Store, response.question, K, tie_order)

Surviving == valid_results(Retrieved)

(* C7, as stated: every POST /query returns an Answer, never an error      *)
(* response.                                                                *)
C7_AlwaysAnAnswer ==
    response.op = "query" => response.outcome = "answer"

(* C7, amended: POST /query returns HTTP 400 exactly when documents_db is  *)
(* empty and HTTP 500 exactly when encoding the question fails; otherwise   *)
(* it returns an Answer, and a failing generation call is turned into an    *)
(* Answer with confidence 0.0 and a text that carries the error.            *)
C7_GenerationFailuresOnlyAreAnswered ==
    response.op = "query" =>
        /\ response.outcome \in {"answer", "http_400", "http_500"}
        /\ response.outcome = "http_400" <=> DOMAIN documents_db = {}
        /\ response.outcome = "http_500" <=>
               (DOMAIN documents_db # {} /\ ~response.enc_ok)
        /\ (response.gen_called /\ response.gen # "ok") =>
               /\ response.outcome = "answer"
               /\ response.answer = "generation_failed"
               /\ response.error = response.gen
               /\ response.confidence = Zero

(* encoding the question failed and the caller got HTTP 500 *)
C7_Witness ==
    /\ response.op = "query"
    /\ ~response.enc_ok
    /\ response.outcome = "http_500"
    /\ ValidCount > 0

(* C8, as stated: a query on a store with no document ever added or none   *)
(* remaining returns the no-relevant-information message, confidence 0.0    *)
(* and no citations.                                                        *)
C8_EmptyStoreNoInformation ==
    (response.op = "pipeline_query" /\ ValidCount = 0 /\ response.enc_ok) =>
        /\ response.outcome = "answer"
        /\ response.answer = "no_relevant_information"
        /\ response.confidence = Zero
        /\ response.sources = << >>

(* C8, amended: on a store nothing was ever added to, query returns the    *)
(* no-relevant-information message, confidence 0.0, no citations; on a      *)
(* store whose documents are all soft-deleted it returns the                *)
(* documents-have-been-deleted message, confidence 0.0, no citations, or    *)
(* raises when encoding the question fails; POST /query returns HTTP 400    *)
(* when documents_db is empty.                                              *)
C8_EmptyStoreAnswers ==
    /\ (response.op = "pipeline_query" /\ ValidCount = 0) =>
           IF Len(index) = 0
           THEN /\ response.outcome = "answer"
                /\ response.answer = "no_relevant_information"
                /\ response.confidence = Zero
                /\ response.sources = << >>
           ELSE IF response.enc_ok
           THEN /\ response.outcome = "answer"
                /\ response.answer = "documents_deleted"
                /\ response.confidence = Zero
                /\ response.sources = << >>
           ELSE response.outcome = "raised"
    /\ (response.op = "query" /\ DOMAIN documents_db = {}) =>
           response.outcome = "http_400"

(* a query on a store whose documents are all soft-deleted was answered *)
C8_Witness ==
    /\ response.op = "pipeline_query"
    /\ response.outcome = "answer"
    /\ ValidCount = 0
    /\ Len(index) > 0

(* C9: a query calls _call_openai if and only if it returns an Answer and  *)
(* at least one result of its search is not soft-deleted; with no results   *)
(* or only deleted ones the call is not made.                               *)
C9_NoGenerationOnEmptyContext ==
    response.op \in {"pipeline_query", "query"} =>
        /\ response.gen_called => (response.results = Retrieved /\ Surviving # << >>)
        /\ (response.outcome = "answer" /\ Surviving # << >>) => response.gen_called

(* the search returned results, all of them deleted, and no call was made *)
C9_Witness ==
    /\ response.op = "pipeline_query"
    /\ response.outcome = "answer"
    /\ response.results # << >>
    /\ Surviving = << >>
    /\ ~response.gen_called

(* C10: when the question is encoded, some search result survives and the  *)
(* generation call fails, POST /query returns an Answer whose citations are *)
(* those of the surviving results, whose confidence is 0.0 and whose text   *)
(* is the generation-failed message with the error.                         *)
C10_GenerationFailurePreservesCitations ==
    ( /\ response.op = "query"
      /\ DOMAIN documents_db # {}
      /\ response.enc_ok
      /\ response.gen # "ok"
      /\ Surviving # << >> ) =>
        /\ response.outcome = "answer"
        /\ response.answer = "generation_failed"
        /\ response.error = response.gen
        /\ response.sources = Sources(Surviving)
        /\ response.confidence = Zero

(* generation failed on a query that had several surviving results *)
C10_Witness ==
    /\ response.op = "query"
    /\ response.answer = "generation_failed"
    /\ Len(response.sources) > 1
    /\ \E i \in DOMAIN response.sources : response.sources[i].confidence > 0

(* the sum of the scores of the citations of the last response *)
CitedScoreSum == SumSeq([i \in DOMAIN response.sources |-> response.sources[i].confidence])

(* the confidence of the last response is the mean of its citations' scores *)
ConfidenceIsMean ==
    response.confidence[1] * Len(response.sources) = CitedScoreSum * response.confidence[2]

(* C11, as stated: in every Answer the confidence is 0.0 when there are no *)
(* citations and otherwise the mean of the scores of the citations.         *)
C11_ConfidenceIsZeroOrMean ==
    (response.op = "query" /\ response.outcome = "answer") =>
        IF response.sources = << >>
        THEN response.confidence = Zero
        ELSE ConfidenceIsMean

(* C11, amended: the confidence is 0.0 when there are no citations and     *)
(* when the generation call failed (the citations are then kept); in the    *)
(* Answer of a successful generation it is the mean of the citations'       *)
(* scores.                                                                  *)
C11_ConfidenceBound ==
    (response.op = "query" /\ response.outcome = "answer") =>
        /\ response.sources = << >> => response.confidence = Zero
        /\ response.answer = "generation_failed" => response.confidence = Zero
        /\ response.answer = "generated" =>
               /\ response.sources # << >>
               /\ response.confidence = <<CitedScoreSum, Len(response.sources)>>
        /\ response.answer \in {"generated", "generation_failed"} \/ response.sources = << >>

(* a generated Answer whose citations have different scores *)
C11_Witness ==
    /\ response.op = "query"
    /\ response.answer = "generated"
    /\ \E i, j \in DOMAIN response.sources :
           response.sources[i].confidence # response.sources[j].confidence
    /\ response.confidence[1] > 0

C13_EmptyStoreSearch ==
    (response.op = "similarity_search" /\ Len(documents) = 0) =>
        /\ response.outcome = "ok"
        /\ response.results = << >>

(* a search with k = 5 on a store without chunks, at a moment the encoder  *)
(* would have failed                                                        *)
C13_Witness ==
    /\ response.op = "similarity_search"
    /\ Len(documents) = 0
    /\ Len(index) = 0
    /\ response.k = K
    /\ ~response.enc_ok
    /\ response.outcome = "ok"

(* C14: after delete_document(d), calling delete_document(d) again leaves  *)
(* documents with their flags, doc_to_chunks and the index as the first     *)
(* call left them, and raises nothing.                                      *)
C14_DeleteIdempotent ==
    response.op = "delete_document" =>
        /\ response.outcome = "ok"
        /\ delete_document(Store, response.doc_id) = Store

(* delete_document marked the chunks of one document while another         *)
(* document is still registered                                             *)
C14_Witness ==
    /\ response.op = "delete_document"
    /\ \E p \in DOMAIN documents :
           documents[p].doc_id = response.doc_id /\ documents[p].deleted
    /\ DOMAIN doc_to_chunks # {}

(* C15: DELETE of a doc_id that is not in documents_db is answered with    *)
(* HTTP 404 and changes neither the store nor documents_db; in the store,   *)
(* delete_document of a doc_id without a doc_to_chunks entry changes        *)
(* nothing.                                                                 *)
C15_Step ==
    response'.op = "delete" =>
        /\ response'.doc_id \notin DOMAIN documents_db <=> response'.outcome = "http_404"
        /\ response'.outcome = "http_404" =>
               UNCHANGED <<index, documents, doc_to_chunks, documents_db>>
        /\ response'.outcome \in {"http_404", "ok"}

C16_Step ==
    response'.op = "delete_document" =>
        /\ Len(documents') = Len(documents)
        /\ \A p \in DOMAIN documents :
               IF documents[p].doc_id = response'.doc_id
               THEN documents'[p].deleted
               ELSE documents'[p] = documents[p]

C16_DeleteMarksAllChunks == [][C16_Step]_vars

(* C17: vector_store_size in GET /stats is the number of chunks ever       *)
(* inserted, soft-deleted ones included, and no step, a delete in           *)
(* particular, makes index.ntotal smaller.                                  *)
C17_SizeStep ==
    /\ Len(index') >= Len(index)
    /\ response'.op = "delete" => Len(index') = Len(index)

C17_SizeCountsDeleted ==
    /\ [](response.op = "stats" =>
             /\ response.stats.vector_store_size = Len(assigned)
             /\ response.stats.vector_store_size = Len(documents))
    /\ [][C17_SizeStep]_vars

(* stats were read on a store that holds deleted and live chunks *)
C17_Witness ==
    /\ response.op = "stats"
    /\ ValidCount > 0
    /\ response.stats.vector_store_size > ValidCount

(* C18: total_chunks in GET /stats is the number of chunks of the store    *)
(* whose deleted flag is not set.                                           *)
C18_TotalChunksAreLive ==
    response.op = "stats" => response.stats.total_chunks = ValidCount

(* stats were read after an upload and the deletion of another document *)
C18_Witness ==
    /\ response.op = "stats"
    /\ response.stats.total_chunks > 0
    /\ response.stats.total_documents = 1
    /\ tombstones # {}

(* C19: the prompt of a query holds the last 4 entries of the chat        *)
(* history passed to it, in their order, each as its "Role: content" line;  *)
(* older entries are not in it, and a history of at most 4 entries is in it *)
(* whole.                                                                   *)
C19_LastFourHistoryEntries ==
    (response.op = "query_with_history" /\ response.gen_called) =>
        LET h == response.chat_history
            lines == response.prompt.history
            dropped == Len(h) - Len(lines)
        IN  /\ Len(lines) = Min(HistoryWindow, Len(h))
            /\ \A i \in DOMAIN lines :
                   /\ lines[i].role =
                          Title(IF "role" \in DOMAIN h[dropped + i]
                                THEN h[dropped + i].role ELSE "user")
                   /\ lines[i].content =
                          (IF "content" \in DOMAIN h[dropped + i]
                           THEN h[dropped + i].content ELSE << >>)

(* a prompt was built from a history of more than 4 entries whose oldest   *)
(* entry differs from the oldest one kept                                   *)
C19_Witness ==
    /\ response.op = "query_with_history"
    /\ response.gen_called
    /\ Len(response.chat_history) > HistoryWindow
    /\ response.chat_history[1] # response.chat_history[Len(response.chat_history) - 3]
    /\ Len(response.prompt.history) = HistoryWindow

(* C20: a query runs from its search to its Answer without giving way to  *)
(* another request, so every chunk its Answer cites was, when the query     *)
(* began, the unflagged chunk of a document still in documents_db: no       *)
(* document whose DELETE completed before is cited.  A DELETE can only run  *)
(* after the Answer is made, and leaves it as it is.                        *)
C20_Step ==
    (response'.op = "query" /\ response'.outcome = "answer") =>
        /\ UNCHANGED <<index, documents, doc_to_chunks, documents_db, tombstones>>
        /\ \A i \in DOMAIN response'.sources :
               LET pos == response'.sources[i].pos
               IN  /\ pos + 1 \in DOMAIN documents
                   /\ ~documents[pos + 1].deleted
                   /\ pos \notin tombstones
                   /\ documents[pos + 1].doc_id \in DOMAIN documents_db
                   /\ response'.sources[i].source = documents[pos + 1].source
                   /\ response'.sources[i].chunk_id = documents[pos + 1].chunk_id

C20_NoCitationOfEarlierDelete == [][C20_Step]_vars

(* a query whose search returned chunks of a deleted document next to      *)
(* live ones answered with citations                                        *)
C20_Witness ==
    /\ ApiAnswered
    /\ response.sources # << >>
    /\ \E i \in DOMAIN response.results : response.results[i].doc.deleted
    /\ Len(response.sources) < Len(response.results)

(* the store after the step *)
StoreAfter == [index |-> index', documents |-> documents', doc_to_chunks |-> doc_to_chunks']

(* C21: add_documents and delete_document never overlap: whenever the      *)
(* store changes, the change is the whole effect of one add_documents of an *)
(* upload in flight, or of one delete_document, applied to the store the    *)
(* previous operation left.                                                 *)
C21_Step ==
    StoreAfter # Store =>
        \/ /\ response'.op = "upload"
           /\ response'.doc_id \in DOMAIN pending
           /\ StoreAfter = inserted(Store, process_document(pending[response'.doc_id]),
                                     response'.doc_id)
        \/ /\ response'.op = "delete"
           /\ StoreAfter = delete_document(Store, response'.doc_id)

C23_LoadRejectsMismatch ==
    response.op = "load_from_disk" =>
        \A p \in DOMAIN index : Len(index[p]) = dimension

(* C26: the preview of a citation is the chunk content when the content   *)
(* has at most 200 characters, and otherwise its first 200 characters       *)
(* followed by the ellipsis "...".                                          *)
C26_PreviewTruncation ==
    response.op = "citation" =>
        LET content == response.content
            preview == response.citation.preview
        IN  IF Len(content) <= PreviewLen
            THEN preview = content
            ELSE /\ Len(preview) = PreviewLen + 3
                 /\ \A i \in 1..PreviewLen : preview[i] = content[i]
                 /\ \A i \in (PreviewLen + 1)..(PreviewLen + 3) : preview[i] = 46

(* a chunk of 201 characters was cited with a preview of 203 *)
C26_Witness ==
    /\ response.op = "citation"
    /\ Len(response.content) = PreviewLen + 1
    /\ Len(response.citation.preview) = PreviewLen + 3
    /\ response.content[PreviewLen + 1] # 46

(* C27: a chunk, once inserted, keeps its place in the documents list, its *)
(* content, its source metadata and its vector through every add_documents, *)
(* delete_document, similarity_search and query; it is never removed; its   *)
(* deleted flag, once set, stays set; and a search or a query changes       *)
(* nothing in the store at all.                                             *)
C27_Step ==
    /\ Len(documents') >= Len(documents)
    /\ Len(index') >= Len(index)
    /\ \A p \in DOMAIN documents :
           /\ documents'[p].content = documents[p].content
           /\ documents'[p].source = documents[p].source
           /\ documents'[p].chunk_id = documents[p].chunk_id
           /\ documents'[p].total_chunks = documents[p].total_chunks
           /\ documents[p].deleted => documents'[p].deleted
           /\ index'[p] = index[p]
    /\ response'.op \in {"similarity_search", "pipeline_query", "query"} =>
           UNCHANGED <<index, documents, doc_to_chunks>>

C27_ChunksImmutable == [][C27_Step]_vars

(* a search ran on a store that holds a deleted chunk and, after it, a     *)
(* live chunk of another document                                           *)
C27_Witness ==
    /\ SearchReturned
    /\ \E p, q \in DOMAIN documents :
           /\ p < q
           /\ documents[p].deleted
           /\ ~documents[q].deleted
           /\ documents[p].doc_id # documents[q].doc_id

(* C28: after every add_documents and delete_document the index holds as  *)
(* many vectors as the documents list holds records, and the vector at a    *)
(* position is the embedding of the record at that position, so that a      *)
(* search pairs each score with the record it was computed from.            *)
C28_IndexAligned ==
    /\ Len(index) = Len(documents)
    /\ \A p \in DOMAIN documents : index[p] = Encode(documents[p].content)
    /\ SearchReturned =>
           \A i \in DOMAIN response.results :
               LET r == response.results[i]
               IN  r.score # FLT_LOWEST =>
                       r.score = InnerProduct(Encode(response.question),
                                              Encode(r.doc.content))

(* a delete_document completed on a store whose chunks have different      *)
(* vectors                                                                  *)
C28_Witness ==
    /\ response.op = "delete_document"
    /\ tombstones # {}
    /\ \E p, q \in DOMAIN index : index[p] # index[q]

(* C29: after every completed request the document ids in documents_db    *)
(* are the keys of doc_to_chunks, and the chunks_count recorded for a       *)
(* document is the number of chunk indices listed for it.                   *)
C29_MetadataMatchesStore ==
    /\ DOMAIN documents_db = DOMAIN doc_to_chunks
    /\ \A d \in DOMAIN documents_db :
           /\ documents_db[d].id = d
           /\ documents_db[d].chunks_count = Len(doc_to_chunks[d])

(* a document of several chunks is recorded after another one was deleted  *)
(* and while an upload is in flight or has failed                           *)
C29_Witness ==
    /\ \E d \in DOMAIN documents_db : documents_db[d].chunks_count > 1
    /\ tombstones # {}
    /\ response.op \in {"delete", "query", "stats"}

(* C30: after any sequence of add_documents and delete_document calls      *)
(* every chunk whose deleted flag is not set is listed in exactly one       *)
(* doc_to_chunks entry, the one of its doc_id, and every listed index is    *)
(* the position of a chunk that is not deleted.                             *)
C30_LiveChunksAreListed ==
    /\ \A p \in DOMAIN documents :
           ~documents[p].deleted =>
               /\ documents[p].doc_id \in DOMAIN doc_to_chunks
               /\ \A d \in DOMAIN doc_to_chunks :
                      (p - 1) \in Range(doc_to_chunks[d]) <=> d = documents[p].doc_id
    /\ \A d \in DOMAIN doc_to_chunks :
           \A j \in DOMAIN doc_to_chunks[d] :
               /\ doc_to_chunks[d][j] + 1 \in DOMAIN documents
               /\ ~documents[doc_to_chunks[d][j] + 1].deleted

(* the step is a load_from_disk of the path save_to_disk writes *)
LoadStep == response'.op = "load_from_disk"

(* a search returns on st: with vectors in the index and no chunk record,   *)
(* which only files of two different saves loaded together produce, a pad   *)
(* label makes documents[-1] raise IndexError                                *)
SearchReturns(st) == st.documents # << >> \/ st.index = << >>

(* the store the last save_to_disk that returned was called on answers      *)
(* every search and every delete as the store after the step does           *)
BehavesAsSaved ==
    /\ SearchReturns(StoreAfter) <=> SearchReturns(disk.saved)
    /\ \A q \in Questions, k \in Ks :
           SearchReturns(StoreAfter) /\ SearchReturns(disk.saved) =>
               similarity_search(StoreAfter, q, k, tie_order)
                   = similarity_search(disk.saved, q, k, tie_order)
    /\ \A d \in DocIds :
           delete_document(StoreAfter, d) = delete_document(disk.saved, d)

C31_Step ==
    LoadStep =>
        IF disk.faiss.exists /\ disk.pkl.exists
        THEN disk.complete =>
                 /\ response'.outcome = "ok"
                 /\ index' = disk.saved.index
                 /\ documents' = disk.saved.documents
                 /\ doc_to_chunks' = disk.saved.doc_to_chunks
                 /\ BehavesAsSaved
        ELSE /\ response'.outcome = "false"
             /\ UNCHANGED <<index, documents, doc_to_chunks>>

(* C31: a load_from_disk of the two files a save_to_disk wrote leaves the   *)
(* index, the chunk records with their deleted flags and the doc_to_chunks  *)
(* mapping as they were when that save was made, whatever was inserted or   *)
(* deleted in between, so that every search and every delete answers as on  *)
(* the saved store; a load_from_disk that finds one of the files missing    *)
(* returns False and changes nothing in the store.                          *)
C31_PersistenceRoundTrip == [][C31_Step]_vars

(* a load has brought back a saved store holding a deleted chunk, undoing   *)
(* an insertion made after the save                                         *)
C31_Witness ==
    /\ response.op = "load_from_disk" /\ response.outcome = "ok"
    /\ disk.complete
    /\ Store = disk.saved
    /\ \E p \in DOMAIN documents : documents[p].deleted
    /\ Len(assigned) > Len(documents)

====
